---------------------------- MODULE Spec2Model ----------------------------
(***************************************************************************)
(* BankBot (src/bankbot_app.py): the message routing of send_message, the  *)
(* reply clean-up of get_ollama_response and the chat store kept in        *)
(* st.session_state (chat_history, current_chat, chat_id, user_input).     *)
(*                                                                         *)
(* A Python str is a sequence of characters; a character is a one-letter   *)
(* TLA+ string, a non-ASCII code point is written "U+XXXX".  A Python list *)
(* is an object: current_chat and the "messages" of a saved chat hold a    *)
(* reference into `lists`, so that two names of one list share its         *)
(* appends.                                                                *)
(***************************************************************************)
EXTENDS Integers, Sequences, FiniteSets, TLC

\* ------------------------------------------------------------------ bounds
\* send_message appends to a chat at most MaxTurns times in a run.
MaxTurns == 2
\* save_chat is offered while chat_history holds fewer than MaxHistory chats.
MaxHistory == 2
\* uuid.uuid4() is drawn at most MaxIds times (the first draw is line 35).
MaxIds == 2
\* A raw completion is the concatenation of at most MaxPieces of Pieces.
MaxPieces == 3

\* msg["content"][:40]
TitleLen == 40

\* ----------------------------------------------------------------- strings
Min(a, b) == IF a <= b THEN a ELSE b

UpperCase == <<"A","B","C","D","E","F","G","H","I","J","K","L","M",
               "N","O","P","Q","R","S","T","U","V","W","X","Y","Z">>
LowerCase == <<"a","b","c","d","e","f","g","h","i","j","k","l","m",
               "n","o","p","q","r","s","t","u","v","w","x","y","z">>

\* str.lower(), on the ASCII letters
lower(s) ==
    [i \in 1..Len(s) |->
        IF \E k \in 1..26 : UpperCase[k] = s[i]
        THEN LowerCase[CHOOSE k \in 1..26 : UpperCase[k] = s[i]]
        ELSE s[i]]

\* `word in message`
Contains(s, word) ==
    \E i \in 0..(Len(s) - Len(word)) : SubSeq(s, i + 1, i + Len(word)) = word

\* The characters str.strip() removes, among those the model's texts use.
WhiteSpace == {" ", "\t", "\n", "\r", "\f"}

RECURSIVE lstrip(_)
lstrip(s) ==
    IF s # <<>> /\ Head(s) \in WhiteSpace THEN lstrip(Tail(s)) ELSE s

RECURSIVE rstrip(_)
rstrip(s) ==
    IF s # <<>> /\ s[Len(s)] \in WhiteSpace THEN rstrip(SubSeq(s, 1, Len(s) - 1)) ELSE s

\* str.strip()
strip(s) == rstrip(lstrip(s))

\* str.replace(old, ""): the occurrences of old found scanning from the left,
\* each search resuming after the occurrence removed (old is not empty).
RECURSIVE replace(_, _)
replace(s, old) ==
    IF Len(s) < Len(old) THEN s
    ELSE IF SubSeq(s, 1, Len(old)) = old
         THEN replace(SubSeq(s, Len(old) + 1, Len(s)), old)
         ELSE <<Head(s)>> \o replace(Tail(s), old)

\* ------------------------------------------------------------- classifier

greetings ==
    << <<"h","i">>,
       <<"h","e","l","l","o">>,
       <<"h","e","y">>,
       <<"g","o","o","d"," ","m","o","r","n","i","n","g">>,
       <<"g","o","o","d"," ","e","v","e","n","i","n","g">> >>


is_greeting(message) ==
    \E i \in 1..Len(greetings) : Contains(lower(message), greetings[i])

banking_terms ==
    << <<"a","c","c","o","u","n","t">>,
       <<"l","o","a","n">>,
       <<"e","m","i">>,
       <<"i","n","t","e","r","e","s","t">>,
       <<"c","a","r","d">>,
       <<"a","t","m">>,
       <<"b","a","l","a","n","c","e">>,
       <<"t","r","a","n","s","a","c","t","i","o","n">>,
       <<"i","f","s","c">>,
       <<"b","r","a","n","c","h">>,
       <<"b","a","n","k">> >>


is_banking_related(message) ==
    \E i \in 1..Len(banking_terms) : Contains(lower(message), banking_terms[i])

\* ---------------------------------------------------------- fixed replies

greeting_reply ==
    <<"H","e","l","l","o"," ","U+1F44B","\n","\n","I","U+2019","m"," ","*","*","B","a",
      "n","k","B","o","t","*","*",","," ","y","o","u","r"," ","b","a","n","k","i","n",
      "g"," ","a","s","s","i","s","t","a","n","t",".","\n","\n","Y","o","u"," ","c","a",
      "n"," ","a","s","k"," ","m","e"," ","a","b","o","u","t",":","\n","U+2022"," ","O",
      "p","e","n","i","n","g"," ","a","n"," ","a","c","c","o","u","n","t","\n","U+2022",
      " ","L","o","a","n","s"," ","&"," ","E","M","I","\n","U+2022"," ","C","a","r","d",
      "s"," ","&"," ","A","T","M"," ","s","e","r","v","i","c","e","s">>


off_topic_reply ==
    <<"I","U+2019","m"," ","h","e","r","e"," ","t","o"," ","h","e","l","p"," ","w","i",
      "t","h"," ","*","*","b","a","n","k","i","n","g","-","r","e","l","a","t","e","d",
      " ","q","u","e","r","i","e","s"," ","o","n","l","y","*","*",".","\n","\n","P","l",
      "e","a","s","e"," ","a","s","k"," ","a","b","o","u","t",":","\n","U+2022"," ","A",
      "c","c","o","u","n","t","s","\n","U+2022"," ","L","o","a","n","s","\n","U+2022",
      " ","C","a","r","d","s","\n","U+2022"," ","A","T","M"," ","s","e","r","v","i","c",
      "e","s">>


NewChatTitle ==
    <<"N","e","w"," ","C","h","a","t">>


\* --------------------------------------------------------- backend adapter

blocked_phrases ==
    << <<"Y","o","u"," ","a","r","e"," ","B","a","n","k","B","o","t">>,
       <<"A","n","s","w","e","r"," ","o","n","l","y">>,
       <<"C","u","s","t","o","m","e","r"," ","Q","u","e","s","t","i","o","n">> >>

RECURSIVE remove_blocked(_, _)
\* for phrase in blocked_phrases: reply_text = reply_text.replace(phrase, "")
remove_blocked(reply_text, i) ==
    IF i > Len(blocked_phrases) THEN reply_text
    ELSE remove_blocked(replace(reply_text, blocked_phrases[i]), i + 1)

\* The "Safety cleanup" of a completion and the final strip().
cleanup(reply_text) == strip(remove_blocked(reply_text, 1))

\* dict.get(key, default); a dict is a function on its keys.
dict_get(body, key, default) == IF key \in DOMAIN body THEN body[key] ELSE default

\* What the HTTP call of one get_ollama_response can do: requests.post raises
\* (no connection, timeout), response.json() raises (the body is no JSON), or
\* the body parses to a dict, with or without the key "response".
Outcome(kind, body) == [kind |-> kind, body |-> body]
PostRaises == Outcome("post_raises", <<>>)
JsonRaises == Outcome("json_raises", <<>>)
Completion(raw) == Outcome("json", [k \in {"response"} |-> raw])
NoResponseKey == Outcome("json", <<>>)

\* The result of a call: the exception escapes (nothing catches it), or the
\* cleaned reply is returned.
get_ollama_response(outcome) ==
    IF outcome.kind # "json"
    THEN [raised |-> TRUE, value |-> <<>>]
    ELSE [raised |-> FALSE,
          value |-> cleanup(dict_get(outcome.body, "response", <<>>))]

\* ------------------------------------------------------------------ inputs

\* whitespace only
TxtBlank ==
    <<" "," "," ">>

\* a greeting, typed with blanks around it
TxtHello ==
    <<" ","H","e","l","l","o"," ">>

\* a greeting keyword and banking terms
TxtBoth ==
    <<"h","i",","," ","m","y"," ","b","a","n","k"," ","c","a","r","d">>

\* neither
TxtOffTopic ==
    <<"w","e","a","t","h","e","r">>

\* banking terms only, longer than a title
TxtLoan ==
    <<"W","h","a","t"," ","i","s"," ","t","h","e"," ","i","n","t","e","r","e","s","t",
      " ","r","a","t","e"," ","o","n"," ","a"," ","h","o","m","e"," ","l","o","a","n",
      " ","t","o","d","a","y","\n">>

\* What the user types before pressing Send: every branch of send_message,
\* and the two texts the chats of the store are made of.
UserTexts == {TxtBlank, TxtHello, TxtBoth, TxtOffTopic, TxtLoan}
StoreTexts == {TxtHello, TxtLoan}

\* a completion that echoes the persona line
RawBalance ==
    <<" ","Y","o","u"," ","a","r","e"," ","B","a","n","k","B","o","t",","," ","y","o",
      "u","r"," ","b","a","l","a","n","c","e"," ","i","s"," ","$","5","0","0","\n">>

\* What the backend does during a turn of the chat.
TurnOutcomes == {PostRaises, JsonRaises, NoResponseKey, Completion(RawBalance)}
StoreOutcomes == {PostRaises, Completion(RawBalance)}

\* A raw completion is built from these: the blocked phrases, whole and in
\* halves, and other text.
Pieces ==
    << <<"Y","o","u"," ","a","r","e"," ">>,
       <<"B","a","n","k","B","o","t">>,
       <<"A","n","s","w","e","r"," ">>,
       <<"o","n","l","y">>,
       <<"A","n","s","w","e","r"," ","o","n","l","y">>,
       <<"C","u","s","t","o","m","e","r"," ","Q","u","e","s","t","i","o","n">>,
       <<" ">>,
       <<","," ","y","o","u","r"," ","b","a","l","a","n","c","e"," ","i","s"," ",
         "$","5","0","0">> >>

RECURSIVE Concat(_)
Concat(ps) == IF ps = <<>> THEN <<>> ELSE Head(ps) \o Concat(Tail(ps))

\* The raw completions the clean-up is tried on.
RawCompletions ==
    { Concat(ps) : ps \in UNION { [1..n -> {Pieces[i] : i \in 1..Len(Pieces)}] : n \in 0..MaxPieces } }

\* ------------------------------------------------------------------- state
VARIABLES
    chat_history,   \* st.session_state.chat_history: the saved chats, newest first
    current_chat,   \* st.session_state.current_chat: a reference to the open list
    chat_id,        \* st.session_state.chat_id
    user_input,     \* st.session_state.user_input: the text box
    lists,          \* the message lists, by reference
    uuids,          \* how many times uuid.uuid4() was drawn
    turns,          \* how many times send_message went past its first return
    last,           \* history: the handler that ran last, its input and outcome
    saved,          \* history: per saved chat, its messages when saved, and
                    \*          whether it was opened from the sidebar since
    failed,         \* history: a backend call has failed
    adapter         \* one call of get_ollama_response on its own

vars == <<chat_history, current_chat, chat_id, user_input, lists, uuids, turns,
          last, saved, failed, adapter>>

\* A list is referenced by current_chat and by at most MaxHistory saved chats.
Refs == 1..(MaxHistory + 1)

\* {"role": ..., "content": ...}; the "time" of a message, current_time() when it
\* is appended, is written once and only displayed: it is left out.
Message(role, content) == [role |-> role, content |-> content]

\* The lists the saved chats reference, and all the session state references.
HistoryRefs(history) == {history[i].messages : i \in 1..Len(history)}
Referenced(history, chat) == {chat} \cup HistoryRefs(history)

\* A list nothing references is gone.
Collect(ls, live) == [r \in Refs |-> IF r \in live THEN ls[r] ELSE <<>>]

\* A new list object: a reference that nothing holds.
new_list(live) == CHOOSE r \in Refs : r \notin live /\ \A q \in 1..(r - 1) : q \in live

\* str(uuid.uuid4()): the n-th draw is modelled by n, so no two draws are equal.
uuid4(n) == n + 1

\* Mutant of prefix: one character short.
prefix_short(content) == SubSeq(content, 1, Min(Len(content), TitleLen - 1))

\* content[:TitleLen] of a str
prefix(content) == SubSeq(content, 1, Min(Len(content), TitleLen))

RECURSIVE generate_chat_title(_)
generate_chat_title(messages) ==
    IF messages = <<>> THEN NewChatTitle
    ELSE IF Head(messages).role = "user" THEN prefix(Head(messages).content)
         ELSE generate_chat_title(Tail(messages))

\* Mutant of route: the banking terms are looked for first.
route_banking_first(user_text) ==
    IF is_banking_related(user_text) THEN "backend"
    ELSE IF is_greeting(user_text) THEN "greeting"
    ELSE "off_topic"

\* The branch send_message takes for a stripped, non-empty text.
route(user_text) ==
    IF is_greeting(user_text) THEN "greeting"
    ELSE IF ~is_banking_related(user_text) THEN "off_topic"
    ELSE "backend"

\* strip() and the branch of each text the user may type, evaluated once.
Typed ==
    [t \in UserTexts |-> [user_text |-> strip(t), route |-> route(strip(t))]]

\* get_ollama_response for each outcome of the HTTP call, evaluated once.
Responded == [o \in TurnOutcomes |-> get_ollama_response(o)]

Last(op, text, index, calls, backend_failed, raised) ==
    [op |-> op, text |-> text, index |-> index, calls |-> calls,
     backend_failed |-> backend_failed, raised |-> raised]

Init ==
    /\ chat_history = <<>>
    /\ current_chat = 1
    /\ lists = [r \in Refs |-> <<>>]
    /\ uuids = 1
    /\ turns = 0
    /\ chat_id = uuid4(0)
    /\ user_input = <<>>
    /\ last = Last("start", <<>>, 0, 0, FALSE, FALSE)
    /\ saved = <<>>
    /\ failed = FALSE
    /\ adapter = [pc |-> "idle", raw |-> <<>>, reply |-> <<>>]

\* ----------------------------------------------------------------- actions
\* Mutant of reset_chat: the open list is emptied in place (current_chat.clear()).
reset_chat_clear ==
    /\ uuids < MaxIds
    /\ lists' = [lists EXCEPT ![current_chat] = <<>>]
    /\ chat_id' = uuid4(uuids)
    /\ uuids' = uuids + 1
    /\ user_input' = <<>>
    /\ last' = Last("reset_chat", <<>>, 0, 0, FALSE, FALSE)
    /\ UNCHANGED <<chat_history, current_chat, turns, saved, failed, adapter>>

\* "New Chat": a new empty list, a new id, an empty text box.
reset_chat ==
    /\ uuids < MaxIds
    /\ LET new == new_list(HistoryRefs(chat_history))
       IN /\ current_chat' = new
          /\ lists' = Collect([lists EXCEPT ![new] = <<>>],
                              Referenced(chat_history, new))
    /\ chat_id' = uuid4(uuids)
    /\ uuids' = uuids + 1
    /\ user_input' = <<>>
    /\ last' = Last("reset_chat", <<>>, 0, 0, FALSE, FALSE)
    /\ UNCHANGED <<chat_history, turns, saved, failed, adapter>>

\* Mutant of save_chat: the entry holds the open list itself, not a copy.
save_chat_no_copy ==
    /\ Len(chat_history) < MaxHistory
    /\ IF lists[current_chat] = <<>>
       THEN UNCHANGED <<chat_history, saved>>
       ELSE /\ chat_history' =
                   <<[id |-> chat_id,
                      title |-> generate_chat_title(lists[current_chat]),
                      messages |-> current_chat]>> \o chat_history
            /\ saved' = <<[messages |-> lists[current_chat], opened |-> FALSE]>>
                        \o saved
    /\ last' = Last("save_chat", <<>>, 0, 0, FALSE, FALSE)
    /\ UNCHANGED <<current_chat, chat_id, user_input, lists, uuids, turns, failed,
                   adapter>>

\* Mutant of save_chat: the entry is added at the end (append, not insert(0, ...)).
save_chat_append ==
    /\ Len(chat_history) < MaxHistory
    /\ IF lists[current_chat] = <<>>
       THEN UNCHANGED <<chat_history, lists, saved>>
       ELSE LET copy == new_list(Referenced(chat_history, current_chat))
            IN /\ chat_history' =
                      Append(chat_history,
                             [id |-> chat_id,
                              title |-> generate_chat_title(lists[current_chat]),
                              messages |-> copy])
               /\ lists' = [lists EXCEPT ![copy] = lists[current_chat]]
               /\ saved' = Append(saved, [messages |-> lists[current_chat],
                                          opened |-> FALSE])
    /\ last' = Last("save_chat", <<>>, 0, 0, FALSE, FALSE)
    /\ UNCHANGED <<current_chat, chat_id, user_input, uuids, turns, failed, adapter>>

\* "Save Chat": nothing for an empty chat; otherwise a new entry at the front of
\* chat_history with the id, the title and a copy of the list.
save_chat ==
    /\ Len(chat_history) < MaxHistory
    /\ IF lists[current_chat] = <<>>
       THEN UNCHANGED <<chat_history, lists, saved>>
       ELSE LET title == generate_chat_title(lists[current_chat])
                copy == new_list(Referenced(chat_history, current_chat))
            IN /\ chat_history' =
                      <<[id |-> chat_id, title |-> title, messages |-> copy]>>
                      \o chat_history
               /\ lists' = [lists EXCEPT ![copy] = lists[current_chat]]
               /\ saved' = <<[messages |-> lists[current_chat], opened |-> FALSE]>>
                           \o saved
    /\ last' = Last("save_chat", <<>>, 0, 0, FALSE, FALSE)
    /\ UNCHANGED <<current_chat, chat_id, user_input, uuids, turns, failed, adapter>>

\* Mutant of select_chat: the open chat becomes a copy of the saved list.
select_chat_copy(i) ==
    /\ i \in 1..Len(chat_history)
    /\ chat_id' = chat_history[i].id
    /\ LET copy == new_list(HistoryRefs(chat_history))
       IN /\ current_chat' = copy
          /\ lists' = Collect([lists EXCEPT ![copy] = lists[chat_history[i].messages]],
                              Referenced(chat_history, copy))
    /\ saved' = [saved EXCEPT ![i].opened = TRUE]
    /\ last' = Last("select_chat", <<>>, i, 0, FALSE, FALSE)
    /\ UNCHANGED <<chat_history, user_input, uuids, turns, failed, adapter>>

\* A click on the i-th button of the sidebar's chat history: the open chat
\* becomes the saved one, by its id and by its very list.
select_chat(i) ==
    /\ i \in 1..Len(chat_history)
    /\ chat_id' = chat_history[i].id
    /\ current_chat' = chat_history[i].messages
    /\ lists' = Collect(lists, HistoryRefs(chat_history))
    /\ saved' = [saved EXCEPT ![i].opened = TRUE]
    /\ last' = Last("select_chat", <<>>, i, 0, FALSE, FALSE)
    /\ UNCHANGED <<chat_history, user_input, uuids, turns, failed, adapter>>

\* The reply of a turn: a fixed text, or what the one backend call gives.
bot_reply(branch, outcome) ==
    CASE branch = "greeting" ->
            [raised |-> FALSE, value |-> greeting_reply, calls |-> 0]
      [] branch = "off_topic" ->
            [raised |-> FALSE, value |-> off_topic_reply, calls |-> 0]
      [] OTHER ->
            [raised |-> Responded[outcome].raised,
             value |-> Responded[outcome].value, calls |-> 1]

\* Mutant of send_message: the reply is stored ahead of the user's message.
send_message_reply_first(text, outcome) ==
    LET user_text == Typed[text].user_text
        chat == lists[current_chat]
        reply == bot_reply(Typed[text].route, outcome)
    IN IF user_text = <<>>
       THEN /\ user_input' = text
            /\ last' = Last("send_message", text, 0, 0, FALSE, FALSE)
            /\ UNCHANGED <<chat_history, current_chat, chat_id, lists, uuids,
                           turns, saved, failed, adapter>>
       ELSE /\ turns < MaxTurns
            /\ turns' = turns + 1
            /\ IF reply.raised
               THEN /\ lists' = lists
                    /\ user_input' = text
               ELSE /\ lists' = [lists EXCEPT ![current_chat] =
                                    chat \o <<Message("bot", reply.value),
                                              Message("user", user_text)>>]
                    /\ user_input' = <<>>
            /\ failed' = (failed \/ reply.raised)
            /\ last' = Last("send_message", text, 0, reply.calls,
                            reply.raised, reply.raised)
            /\ UNCHANGED <<chat_history, current_chat, chat_id, uuids, saved,
                           adapter>>

\* "Send" with `text` in the text box, the backend (if called) doing `outcome`.
send_message(text, outcome) ==
    LET user_text == Typed[text].user_text
        chat == lists[current_chat]
        with_user == Append(chat, Message("user", user_text))
        reply == bot_reply(Typed[text].route, outcome)
    IN IF user_text = <<>>
       THEN /\ user_input' = text
            /\ last' = Last("send_message", text, 0, 0, FALSE, FALSE)
            /\ UNCHANGED <<chat_history, current_chat, chat_id, lists, uuids,
                           turns, saved, failed, adapter>>
       ELSE /\ turns < MaxTurns
            /\ turns' = turns + 1
            /\ IF reply.raised
               THEN \* the exception leaves send_message after the first append
                    /\ lists' = [lists EXCEPT ![current_chat] = with_user]
                    /\ user_input' = text
               ELSE /\ lists' = [lists EXCEPT ![current_chat] =
                                    Append(with_user, Message("bot", reply.value))]
                    /\ user_input' = <<>>
            /\ failed' = (failed \/ reply.raised)
            /\ last' = Last("send_message", text, 0, reply.calls,
                            reply.raised, reply.raised)
            /\ UNCHANGED <<chat_history, current_chat, chat_id, uuids, saved,
                           adapter>>

Next ==
    \/ reset_chat
    \/ save_chat
    \/ \E i \in 1..MaxHistory : select_chat(i)
    \/ \E text \in StoreTexts, outcome \in StoreOutcomes : send_message(text, outcome)

Spec == Init /\ [][Next]_vars

\* Every text and every outcome of the backend, without the chat-history buttons.
NextRouting ==
    \/ reset_chat
    \/ save_chat
    \/ \E text \in UserTexts, outcome \in TurnOutcomes : send_message(text, outcome)

SpecRouting == Init /\ [][NextRouting]_vars

\* ------------------------------------------- the backend adapter on its own
InitAdapter ==
    /\ chat_history = <<>>
    /\ current_chat = 1
    /\ lists = [r \in Refs |-> <<>>]
    /\ uuids = 1
    /\ turns = 0
    /\ chat_id = uuid4(0)
    /\ user_input = <<>>
    /\ last = Last("start", <<>>, 0, 0, FALSE, FALSE)
    /\ saved = <<>>
    /\ failed = FALSE
    /\ \E raw \in RawCompletions : adapter = [pc |-> "call", raw |-> raw, reply |-> <<>>]

\* The model answers adapter.raw; get_ollama_response returns.
respond ==
    /\ adapter.pc = "call"
    /\ adapter' = [adapter EXCEPT
                      !.pc = "returned",
                      !.reply = get_ollama_response(Completion(adapter.raw)).value]
    /\ UNCHANGED <<chat_history, current_chat, chat_id, user_input, lists, uuids,
                   turns, last, saved, failed>>

NextAdapter == respond

SpecAdapter == InitAdapter /\ [][NextAdapter]_vars

\* ------------------------------------------------------------------ claims
\* The messages of the open chat and of the i-th saved chat.
Active == lists[current_chat]
Stored(i) == lists[chat_history[i].messages]

\* The saved chats as the sidebar and a later selection show them.
Archive ==
    [i \in 1..Len(chat_history) |->
        [id |-> chat_history[i].id, title |-> chat_history[i].title,
         messages |-> Stored(i)]]

\* C1: a turn whose backend call fails still completes: the open chat ends
\* with the user's message followed by a bot message, the text box is empty
\* and send_message has returned.
C1_FailedTurnCompletes ==
    (last.op = "send_message" /\ last.backend_failed) =>
        /\ ~last.raised
        /\ user_input = <<>>
        /\ Len(Active) >= 2
        /\ Active[Len(Active) - 1] = Message("user", Typed[last.text].user_text)
        /\ Active[Len(Active)].role = "bot"

\* C2: no two saved chats carry the same id.
C2_UniqueIds ==
    \A i, j \in 1..Len(chat_history) :
        i # j => chat_history[i].id # chat_history[j].id

\* C3: save_chat on an empty chat leaves the saved chats as they are; on a
\* non-empty chat it adds one entry, at the front, with the open chat's id,
\* the derived title and a copy of its messages, the older entries following
\* in their order; either way the open chat keeps its id and messages.
C3_SaveChat ==
    [][last'.op = "save_chat" =>
        /\ chat_id' = chat_id
        /\ Active' = Active
        /\ IF Active = <<>>
           THEN Archive' = Archive
           ELSE /\ Len(chat_history') = Len(chat_history) + 1
                /\ Archive'[1] = [id |-> chat_id,
                                  title |-> generate_chat_title(Active),
                                  messages |-> Active]
                /\ chat_history'[1].messages # current_chat'
                /\ \A i \in 1..Len(chat_history) : Archive'[i + 1] = Archive[i]
    ]_vars

C3_Witness ==
    /\ last.op = "save_chat"
    /\ Len(chat_history) = 2
    /\ Archive[1] = [id |-> chat_id, title |-> generate_chat_title(Active),
                     messages |-> Active]
    /\ Archive[2] # Archive[1]

\* C4: a saved chat that was never opened from the sidebar holds the messages
\* it was saved with, whatever is sent, saved, reset or opened afterwards, and
\* opening it shows exactly those messages.
C4_Snapshot ==
    /\ [](\A i \in 1..Len(chat_history) :
            ~saved[i].opened => Stored(i) = saved[i].messages)
    /\ [][(last'.op = "select_chat" /\ ~saved[last'.index].opened) =>
            Active' = saved[last'.index].messages]_vars

C4_Witness ==
    \E i \in 1..Len(chat_history) :
        /\ ~saved[i].opened
        /\ chat_history[i].id = chat_id
        /\ Len(Active) > Len(Stored(i))
        /\ Stored(i) = saved[i].messages

\* C5: opening a saved chat makes it the open chat by id and by reference;
\* while it stays open what send_message appends is in the saved chat too,
\* with no save_chat, and reset_chat leaves it there for the next opening.
C5_SharedAfterSelect ==
    [][/\ last'.op = "select_chat" =>
            /\ chat_id' = chat_history[last'.index].id
            /\ current_chat' = chat_history[last'.index].messages
            /\ Active' = Stored(last'.index)
       /\ last'.op = "send_message" =>
            \A i \in 1..Len(chat_history) :
                chat_history[i].messages = current_chat =>
                    /\ chat_history'[i].messages = current_chat'
                    /\ Stored(i)' = Active'
                    /\ Typed[last'.text].user_text # <<>> =>
                           Len(Stored(i)') > Len(Stored(i))
       /\ last'.op = "save_chat" =>
            \A i \in 1..Len(chat_history) :
                chat_history[i].messages = current_chat =>
                    \E j \in 1..Len(chat_history') :
                        chat_history'[j].messages = current_chat'
       /\ last'.op = "reset_chat" =>
            \A i \in 1..Len(chat_history) : Stored(i)' = Stored(i)
    ]_vars

C5_Witness ==
    /\ last.op = "select_chat"
    /\ uuids > 1
    /\ chat_id = chat_history[last.index].id
    /\ Active = Stored(last.index)
    /\ Len(Active) > Len(saved[last.index].messages)

\* The texts by what they contain, read off the keyword lists themselves.
HasGreeting(t) == \E i \in 1..Len(greetings) : Contains(lower(t), greetings[i])
HasBankingTerm(t) ==
    \E i \in 1..Len(banking_terms) : Contains(lower(t), banking_terms[i])
BlankTexts == {t \in UserTexts : \A k \in 1..Len(t) : t[k] \in WhiteSpace}
GreetingTexts == {t \in UserTexts \ BlankTexts : HasGreeting(t)}
BackendTexts == {t \in UserTexts \ BlankTexts : ~HasGreeting(t) /\ HasBankingTerm(t)}
OffTopicTexts == {t \in UserTexts \ BlankTexts : ~HasGreeting(t) /\ ~HasBankingTerm(t)}

\* C6: one send_message calls the backend once when the stripped text is not
\* empty, has no greeting keyword and has a banking term, and not at all
\* otherwise: a text with a greeting keyword gets the fixed greeting even with
\* a banking term in it, a text with neither gets the off-topic reply, and a
\* blank text changes no chat.
C6_BackendCalls ==
    [][last'.op = "send_message" =>
        /\ last'.calls = (IF last'.text \in BackendTexts THEN 1 ELSE 0)
        /\ last'.text \in GreetingTexts =>
               /\ Len(Active') = Len(Active) + 2
               /\ Active'[Len(Active')] = Message("bot", greeting_reply)
        /\ last'.text \in OffTopicTexts =>
               /\ Len(Active') = Len(Active) + 2
               /\ Active'[Len(Active')] = Message("bot", off_topic_reply)
        /\ last'.text \in BlankTexts =>
               /\ lists' = lists
               /\ current_chat' = current_chat
               /\ chat_history' = chat_history
    ]_vars

C6_Witness ==
    /\ last.op = "send_message"
    /\ last.text \in GreetingTexts
    /\ HasBankingTerm(last.text)
    /\ last.calls = 0
    /\ Active[Len(Active)] = Message("bot", greeting_reply)

\* C7: the reply get_ollama_response returns holds none of the three blocked
\* phrases and neither starts nor ends with white space.
C7_NoBlockedPhrase ==
    adapter.pc = "returned" =>
        /\ \A k \in 1..Len(blocked_phrases) :
               ~Contains(adapter.reply, blocked_phrases[k])
        /\ adapter.reply # <<>> =>
               /\ Head(adapter.reply) \notin WhiteSpace
               /\ adapter.reply[Len(adapter.reply)] \notin WhiteSpace

\* C8: reset_chat opens an empty chat under an id that is neither the one
\* before nor that of a saved chat, and leaves every saved chat as it is: none
\* is added, and none changes its id, title or messages.
C8_ResetChat ==
    [][last'.op = "reset_chat" =>
        /\ Active' = <<>>
        /\ chat_id' # chat_id
        /\ \A i \in 1..Len(chat_history) : chat_history[i].id # chat_id'
        /\ Archive' = Archive
        /\ current_chat' \notin HistoryRefs(chat_history')
    ]_vars

C8_Witness ==
    /\ last.op = "reset_chat"
    /\ Active = <<>>
    /\ \E i \in 1..Len(chat_history) :
           /\ saved[i].opened
           /\ Len(Stored(i)) > Len(saved[i].messages)

\* A chat of complete turns: user, bot, user, bot, ...
Alternates(chat) ==
    /\ Len(chat) % 2 = 0
    /\ \A k \in 1..Len(chat) :
           chat[k].role = (IF k % 2 = 1 THEN "user" ELSE "bot")

\* C9: while no backend call has failed, the open chat and every saved chat
\* alternate user and bot messages from a user message on, and a send_message
\* of a non-blank text adds exactly two messages behind those already there.
C9_CompleteTurns ==
    /\ [](~failed =>
            /\ Alternates(Active)
            /\ \A i \in 1..Len(chat_history) : Alternates(Stored(i)))
    /\ [][(last'.op = "send_message" /\ ~failed'
           /\ Typed[last'.text].user_text # <<>>) =>
            /\ Len(Active') = Len(Active) + 2
            /\ SubSeq(Active', 1, Len(Active)) = Active
            /\ Active'[Len(Active) + 1] =
                   Message("user", Typed[last'.text].user_text)]_vars

C9_Witness ==
    /\ ~failed
    /\ last.op = "send_message"
    /\ Len(Active) = 4
    /\ \E i \in 1..Len(chat_history) : Len(Stored(i)) = 2

====
